---- MODULE Spec2Model ----
(***************************************************************************)
(* Model of datafusion/functions-array/src/any.rs: the array_any_value     *)
(* scalar function.  Two entry points are modelled, both pure:             *)
(*   ArrayAnyValue::return_type  (the type resolver) and                   *)
(*   array_any_value_inner       (the kernel, with its generic helper      *)
(*                                general_array_any_value).                *)
(* A behaviour is one call: Init draws the call's input, the call's        *)
(* action computes its outcome.                                            *)
(*                                                                         *)
(* Rust values are represented as follows.                                 *)
(*   Option<T>     None is <<>>, Some(v) is <<v>>.                         *)
(*   Vec<T>        a sequence.                                             *)
(*   Result<T>     Ok(v), Err(kind, msg); a panic (unwinding out of the    *)
(*                 function without a Result) is Panic(msg).               *)
(*   DataType      a record with a kind, and for the list kinds a field.   *)
(*   an array      [data_type, rows]: rows is the sequence of the array's  *)
(*                 logical slots, each an Option of a value of data_type.  *)
(*                 A value of a list type is the sequence of its child     *)
(*                 slots, so that row i of a list array, taken as an array *)
(*                 (GenericListArray::value), is [element type, rows[i]].  *)
(***************************************************************************)
EXTENDS Integers, Sequences, FiniteSets, TLC

VARIABLES pc, op, arg_types, args, result

vars == <<pc, op, arg_types, args, result>>

----------------------------------------------------------------------------
(* Bounds of the explored inputs. *)

MaxRows == 2
MaxRowLen == 2
MaxDepth == 2
MaxArgs == 2

----------------------------------------------------------------------------
(* Rust's Option and Result. *)

None == <<>>
Some(v) == <<v>>
is_some(o) == Len(o) = 1
unwrap(o) == o[1]

Ok(v) == [tag |-> "Ok", value |-> v]
Err(kind, msg) == [tag |-> "Err", kind |-> kind, msg |-> msg]
Panic(msg) == [tag |-> "Panic", msg |-> msg]
NoResult == [tag |-> "NoResult"]

(* exec_err! and plan_err! build the two error kinds of datafusion_common. *)
exec_err(msg) == Err("Execution", msg)
plan_err(msg) == Err("Plan", msg)

----------------------------------------------------------------------------
(* arrow_schema::DataType, restricted to two scalar types and the three    *)
(* list constructors the function names.                                   *)

Int64 == [kind |-> "Int64"]
Utf8 == [kind |-> "Utf8"]
Field(E) == [name |-> "item", data_type |-> E, nullable |-> TRUE]
List(E) == [kind |-> "List", field |-> Field(E)]
LargeList(E) == [kind |-> "LargeList", field |-> Field(E)]
FixedSizeList(E, n) == [kind |-> "FixedSizeList", field |-> Field(E), size |-> n]

ListKinds == {"List", "LargeList", "FixedSizeList"}
OffsetListKinds == {"List", "LargeList"}
FixedSizes == {1}

RECURSIVE TypesOfDepth(_)
TypesOfDepth(d) ==
    IF d = 0 THEN {Int64, Utf8}
    ELSE LET Sub == TypesOfDepth(d - 1) IN
         Sub \cup {List(E) : E \in Sub} \cup {LargeList(E) : E \in Sub}
             \cup {FixedSizeList(E, n) : E \in Sub, n \in FixedSizes}

DataTypes == TypesOfDepth(MaxDepth)

----------------------------------------------------------------------------
(* Values and arrays. *)

SeqsUpTo(S, n) == UNION {[1..k -> S] : k \in 0..n}
Option(S) == {None} \cup {Some(v) : v \in S}

(* Two sample values of each type: two integers, two strings; for a list   *)
(* type the empty list and a list of one non-null element; for a           *)
(* fixed-size list type the list of nulls and a list of equal non-null     *)
(* elements.                                                               *)
RECURSIVE ValuesOf(_)
ValuesOf(T) ==
    CASE T.kind = "Int64" -> {3, 7}
      [] T.kind = "Utf8" -> {"a", "b"}
      [] T.kind \in OffsetListKinds ->
            LET v == CHOOSE x \in ValuesOf(T.field.data_type) : TRUE
            IN  {<<>>, <<Some(v)>>}
      [] T.kind = "FixedSizeList" ->
            LET v == CHOOSE x \in ValuesOf(T.field.data_type) : TRUE
            IN  {[k \in 1..T.size |-> None], [k \in 1..T.size |-> Some(v)]}

(* The slots of the arrays of type T given to the kernel as its only       *)
(* argument: up to MaxRows rows, a list row having up to MaxRowLen child   *)
(* slots.                                                                  *)
RowsOf(T) ==
    IF T.kind \in OffsetListKinds
    THEN SeqsUpTo(Option(SeqsUpTo(Option(ValuesOf(T.field.data_type)), MaxRowLen)),
                  MaxRows)
    ELSE SeqsUpTo(Option(ValuesOf(T)), MaxRows)

(* Scenarios A and B of the documented contract, as rows of a list of      *)
(* integers.                                                               *)
ScenarioA == << Some(<<None, Some(3), Some(5)>>), Some(<<>>), None, Some(<<Some(7)>>) >>
ScenarioB == << Some(<<None, None>>), Some(<<Some(9)>>) >>

MakeArray(T, rows) == [data_type |-> T, rows |-> rows]

(* Array::len and Array::data_type *)
len(array) == Len(array.rows)
data_type(array) == array.data_type

(* GenericListArray::iter yields, for row i, None when the row is null and *)
(* otherwise Some(value(i)): the row's child segment as an array of the    *)
(* element type.                                                           *)
value(list_array, i) ==
    MakeArray(list_array.data_type.field.data_type, unwrap(list_array.rows[i]))

----------------------------------------------------------------------------
(* ArrayAnyValue::return_type *)

(* A variant of return_type that keeps unwrapping nested list types down   *)
(* to the innermost element type.                                          *)
RECURSIVE innermost(_)
innermost(T) == IF T.kind \in ListKinds THEN innermost(T.field.data_type) ELSE T

return_type_recursive(types) ==
    IF Len(types) = 0
    THEN Panic("index out of bounds: the len is 0 but the index is 0")
    ELSE IF types[1].kind \in ListKinds
         THEN Ok(innermost(types[1]))
         ELSE plan_err("ArrayElement can only accept List, LargeList or FixedSizeList as the first argument")

return_type(types) ==
    IF Len(types) = 0
    THEN Panic("index out of bounds: the len is 0 but the index is 0")
    ELSE IF types[1].kind \in ListKinds
         THEN Ok(types[1].field.data_type)
         ELSE plan_err("ArrayElement can only accept List, LargeList or FixedSizeList as the first argument")

----------------------------------------------------------------------------
(* The kernel. *)

(* The offset width O of GenericListArray<O> is "i32" or "i64". *)
KindOfOffset(O) == IF O = "i32" THEN "List" ELSE "LargeList"

(* AsArray::as_list::<O>: as_list_opt().expect("list array"), a downcast   *)
(* to GenericListArray<O> that panics when the array is of another type.   *)
as_list(array, O) ==
    IF array.data_type.kind = KindOfOffset(O)
    THEN Ok(array)
    ELSE Panic("list array")

(* datafusion_common::cast::as_list_array: a downcast to ListArray, that   *)
(* is GenericListArray<i32>, failing with an Internal error otherwise.     *)
as_list_array(array) ==
    IF array.data_type.kind = "List"
    THEN Ok(array)
    ELSE Err("Internal", "could not cast value to ListArray")

(* ListArray::from_iter_primitive::<Int64Type, _, _>(data): a list of      *)
(* 64-bit integers with one row per item of data.                          *)
from_iter_primitive(data) == MakeArray(List(Int64), data)

(* The loop of general_array_any_value from row i on, data being the       *)
(* vector built so far.                                                    *)
RECURSIVE any_value_loop(_, _, _, _)
any_value_loop(list_array, O, i, data) ==
    IF i > len(list_array)
    THEN Ok(from_iter_primitive(data))
    ELSE IF is_some(list_array.rows[i])
         THEN LET list_array_row == value(list_array, i)
                  downcast == as_list(list_array_row, O)
              IN  IF downcast.tag = "Panic"
                  THEN downcast
                  ELSE LET list_array_row_inner == as_list_array(downcast.value)
                       IN  IF list_array_row_inner.tag = "Err"
                           THEN list_array_row_inner
                           ELSE any_value_loop(list_array, O, i + 1, data)
         ELSE any_value_loop(list_array, O, i + 1, Append(data, None))

general_array_any_value(list_array, O) ==
    any_value_loop(list_array, O, 1, <<>>)

(* A variant of the kernel that sends a fixed-size list to the generic     *)
(* algorithm instead of rejecting it.                                      *)
array_any_value_inner_fixed(a) ==
    IF Len(a) # 1
    THEN exec_err("array_any_value expects one argument")
    ELSE LET array_type == data_type(a[1]) IN
         CASE array_type.kind = "List" -> general_array_any_value(a[1], "i32")
           [] array_type.kind = "LargeList" -> general_array_any_value(a[1], "i64")
           [] array_type.kind = "FixedSizeList" -> general_array_any_value(a[1], "i32")
           [] OTHER -> exec_err("array_any_value does not support type")

(* A variant of the kernel whose arity check only rejects an empty         *)
(* argument slice.                                                         *)
array_any_value_inner_arity(a) ==
    IF Len(a) = 0
    THEN exec_err("array_any_value expects one argument")
    ELSE LET array_type == data_type(a[1]) IN
         CASE array_type.kind = "List" -> general_array_any_value(a[1], "i32")
           [] array_type.kind = "LargeList" -> general_array_any_value(a[1], "i64")
           [] OTHER -> exec_err("array_any_value does not support type")

array_any_value_inner(a) ==
    IF Len(a) # 1
    THEN exec_err("array_any_value expects one argument")
    ELSE LET array_type == data_type(a[1]) IN
         CASE array_type.kind = "List" -> general_array_any_value(a[1], "i32")
           [] array_type.kind = "LargeList" -> general_array_any_value(a[1], "i64")
           [] OTHER -> exec_err("array_any_value does not support type")

----------------------------------------------------------------------------
(* One call. *)

(* The argument types given to return_type: any slice of up to MaxArgs     *)
(* types.                                                                  *)
InitReturnType ==
    /\ op = "return_type"
    /\ arg_types \in SeqsUpTo(TypesOfDepth(MaxDepth - 1), MaxArgs)
                       \cup {<<T>> : T \in DataTypes}
    /\ args = <<>>

(* The arrays given to the kernel: one array of any type, or none, or      *)
(* several arrays of at most one row.                                      *)
InitKernelOne ==
    /\ op = "kernel"
    /\ arg_types = <<>>
    /\ \E T \in DataTypes :
         \E rows \in RowsOf(T) \cup
                     (IF T \in {List(Int64), LargeList(Int64)}
                      THEN {ScenarioA, ScenarioB} ELSE {}) :
            args = <<MakeArray(T, rows)>>

InitKernelArity ==
    /\ op = "kernel"
    /\ arg_types = <<>>
    /\ \E n \in {0} \cup 2..MaxArgs :
         \E ts \in [1..n -> TypesOfDepth(1)] :
            \E e \in [1..n -> BOOLEAN] :
               args = [k \in 1..n |->
                         MakeArray(ts[k], IF e[k] THEN <<>> ELSE <<None>>)]

Init ==
    /\ pc = "call"
    /\ result = NoResult
    /\ \/ InitReturnType
       \/ InitKernelOne
       \/ InitKernelArity

CallReturnType ==
    /\ pc = "call"
    /\ op = "return_type"
    /\ result' = return_type(arg_types)
    /\ pc' = "done"
    /\ UNCHANGED <<op, arg_types, args>>

CallArrayAnyValueInner ==
    /\ pc = "call"
    /\ op = "kernel"
    /\ result' = array_any_value_inner(args)
    /\ pc' = "done"
    /\ UNCHANGED <<op, arg_types, args>>

Next == CallReturnType \/ CallArrayAnyValueInner

Spec == Init /\ [][Next]_vars

----------------------------------------------------------------------------
(* The properties. *)

ReturnTypeDone == pc = "done" /\ op = "return_type"
KernelDone == pc = "done" /\ op = "kernel"

(* The kernel was called with one List or LargeList array. *)
ListInput ==
    /\ KernelDone
    /\ Len(args) = 1
    /\ args[1].data_type.kind \in OffsetListKinds

(* The kernel was called with one list array and returned an array. *)
ListOutput == ListInput /\ result.tag = "Ok"

has_non_null(vec) == \E j \in 1..Len(vec) : is_some(vec[j])
first_non_null(vec) ==
    vec[CHOOSE j \in 1..Len(vec) :
           is_some(vec[j]) /\ \A k \in 1..(j - 1) : ~is_some(vec[k])]

(* Row i of the returned array exists and is the slot o. *)
OutputRowIs(i, o) ==
    /\ i <= len(result.value)
    /\ result.value.rows[i] = o

(* C1: whenever the kernel returns an array for a list input, the array    *)
(* has as many rows as the input.                                          *)
C1_RowCountPreserved ==
    ListOutput => len(result.value) = len(args[1])

(* C2: whenever the kernel returns an array, each output row whose input   *)
(* row is non-null and holds a non-null element is the first non-null      *)
(* element of that input row.                                              *)
C2_FirstNonNull ==
    ListOutput =>
        \A i \in 1..len(args[1]) :
            (is_some(args[1].rows[i]) /\ has_non_null(unwrap(args[1].rows[i])))
                => OutputRowIs(i, first_non_null(unwrap(args[1].rows[i])))

(* C3: whenever the kernel returns an array, the output row at the index   *)
(* of a null input row is null.                                            *)
C3_NullRowGivesNull ==
    ListOutput =>
        \A i \in 1..len(args[1]) :
            ~is_some(args[1].rows[i]) => OutputRowIs(i, None)

(* C4: whenever the kernel returns an array, the output row at the index   *)
(* of a non-null input row that is empty or holds only nulls is null.      *)
C4_EmptyOrAllNullGivesNull ==
    ListOutput =>
        \A i \in 1..len(args[1]) :
            (is_some(args[1].rows[i]) /\ ~has_non_null(unwrap(args[1].rows[i])))
                => OutputRowIs(i, None)

(* C5: return_type of a slice whose first type is List(E), LargeList(E) or *)
(* FixedSizeList(E, n) is E itself: wrapping the answer in the same list   *)
(* constructor gives the argument type back, so exactly one level was      *)
(* removed.  For any other first type the call fails with a Plan error.    *)
Rewrap(T, E) ==
    CASE T.kind = "List" -> List(E)
      [] T.kind = "LargeList" -> LargeList(E)
      [] T.kind = "FixedSizeList" -> FixedSizeList(E, T.size)

C5_ReturnTypeUnwrapsOneLevel ==
    (ReturnTypeDone /\ Len(arg_types) >= 1) =>
        IF arg_types[1].kind \in ListKinds
        THEN /\ result.tag = "Ok"
             /\ Rewrap(arg_types[1], result.value) = arg_types[1]
        ELSE /\ result.tag = "Err"
             /\ result.kind = "Plan"

C5_Witness ==
    /\ ReturnTypeDone
    /\ arg_types = <<LargeList(List(Int64))>>
    /\ result = Ok(List(Int64))

(* C6: whenever the kernel returns an array for a List(E) or LargeList(E)  *)
(* input, the array's data type is E, the type return_type resolves for    *)
(* the input's type.                                                       *)
C6_OutputTypeIsElementType ==
    ListOutput =>
        /\ data_type(result.value) = args[1].data_type.field.data_type
        /\ Ok(data_type(result.value)) = return_type(<<args[1].data_type>>)

(* C7: called with exactly one array that is neither a List nor a          *)
(* LargeList, the kernel fails with an Execution error; for a              *)
(* FixedSizeList this happens although return_type resolves the element    *)
(* type for the same input type.                                           *)
C7_UnsupportedTypeIsExecutionError ==
    (KernelDone /\ Len(args) = 1 /\ args[1].data_type.kind \notin OffsetListKinds) =>
        /\ result.tag = "Err"
        /\ result.kind = "Execution"
        /\ args[1].data_type.kind = "FixedSizeList" =>
              return_type(<<args[1].data_type>>) = Ok(args[1].data_type.field.data_type)

C7_Witness ==
    /\ KernelDone
    /\ Len(args) = 1
    /\ args[1].data_type = FixedSizeList(Int64, 1)
    /\ len(args[1]) = 2
    /\ is_some(args[1].rows[1])
    /\ result = exec_err("array_any_value does not support type")

(* C8: called with no argument or with two or more, the kernel fails with  *)
(* an Execution error whatever the arguments are.                          *)
C8_WrongArityIsExecutionError ==
    (KernelDone /\ Len(args) # 1) =>
        result = exec_err("array_any_value expects one argument")

C8_Witness ==
    /\ KernelDone
    /\ Len(args) = 2
    /\ args[1].data_type = List(Int64)
    /\ args[2].data_type = LargeList(Int64)
    /\ result.tag = "Err"
    /\ result.kind = "Execution"

(* C9: every call ends either with a value, or, for return_type, with a    *)
(* Plan error, or, for the kernel, with an Execution error raised for a    *)
(* wrong argument count or an unsupported array type; no call ends in      *)
(* another error kind or aborts.                                           *)
C9_OnlyTwoErrorKinds ==
    pc = "done" =>
        \/ result.tag = "Ok"
        \/ /\ op = "return_type"
           /\ result.tag = "Err"
           /\ result.kind = "Plan"
        \/ /\ op = "kernel"
           /\ result.tag = "Err"
           /\ result.kind = "Execution"
           /\ \/ Len(args) # 1
              \/ args[1].data_type.kind \notin OffsetListKinds

(* C10: the kernel gives the same outcome on the List and on the LargeList *)
(* encoding of the same rows: the same output rows, or a failure in both.  *)
OtherEncoding(array) ==
    MakeArray(IF array.data_type.kind = "List"
              THEN LargeList(array.data_type.field.data_type)
              ELSE List(array.data_type.field.data_type),
              array.rows)

SameOutcome(r1, r2) ==
    IF r1.tag = "Ok"
    THEN r2.tag = "Ok" /\ r2.value.rows = r1.value.rows
    ELSE r2.tag # "Ok"

C10_OffsetWidthsAgree ==
    ListInput =>
        SameOutcome(result, array_any_value_inner(<<OtherEncoding(args[1])>>))

====
